---- MODULE Spec2Model ----
(***************************************************************************)
(* Model of the PDF acquisition-to-validated-text pipeline of engagic:     *)
(*   backend-rs/src/pdf/downloader.rs  (PdfDownloader)                     *)
(*   infra/src/pdf/extractor.rs        (PdfExtractor, normalize_text)      *)
(*   backend-rs/src/pdf/validator.rs   (TextValidator)                     *)
(*                                                                         *)
(* A Rust string is modelled as the sequence of its characters.  A         *)
(* character is a TLA+ string: the character itself for ASCII, and the     *)
(* name "U+XXXX" for the few non-ASCII characters of the model.  Byte      *)
(* lengths (str::len) are computed from the UTF-8 encoding, so that the    *)
(* number of bytes and the number of characters of a string differ as      *)
(* they do in Rust.                                                        *)
(***************************************************************************)
EXTENDS Integers, Sequences, FiniteSets, TLC

VARIABLES
    entry,       \* the public operation that was called
    url,         \* argument of download / extract_from_url / resolution
    pdf_bytes,   \* argument of extract_from_bytes
    text,        \* argument of is_good_quality / normalize_text
    pc,          \* position of the call
    actual_url,  \* downloader.rs:56
    attempt,     \* loop variable of the retry loop, downloader.rs:61
    last_error,  \* downloader.rs:58
    trace,       \* HTTP attempts and backoff sleeps performed so far
    downloaded,  \* value returned by PdfDownloader::download
    result       \* value returned by the called operation

vars == <<entry, url, pdf_bytes, text, pc, actual_url, attempt, last_error,
          trace, downloaded, result>>

----------------------------------------------------------------------------
(* Characters *)

\* Printable ASCII, code points 32..126, in code point order (the grave accent,
\* which a TLA+ string cannot hold, is written "U+0060").
AsciiTable ==
    <<" ","!","\"","#","$","%","&","'","(",")","*","+",",","-",".","/","0","1","2","3","4","5","6","7","8","9",":",";","<","=",">","?","@","A","B","C","D","E","F","G","H","I","J","K","L","M","N","O","P","Q","R","S","T","U","V","W","X","Y","Z","[","\\","]","^","_","U+0060","a","b","c","d","e","f","g","h","i","j","k","l","m","n","o","p","q","r","s","t","u","v","w","x","y","z","{","|","}","~">>

LowerLetters ==
    <<"a","b","c","d","e","f","g","h","i","j","k","l","m","n","o","p","q","r","s","t","u","v","w","x","y","z">>

UpperLetters ==
    <<"A","B","C","D","E","F","G","H","I","J","K","L","M","N","O","P","Q","R","S","T","U","V","W","X","Y","Z">>

Range(s) == {s[i] : i \in DOMAIN s}

AsciiLetters == Range(LowerLetters) \cup Range(UpperLetters)

HexDigits == {"0","1","2","3","4","5","6","7","8","9",
              "a","b","c","d","e","f","A","B","C","D","E","F"}

\* Non-ASCII characters of the model, with their Unicode code points:
\* U+00E9 e-acute, U+00CD I-acute, U+0301 combining acute accent,
\* U+201A single low-9 quotation mark.
NonAsciiCode == [c \in {"U+00E9", "U+00CD", "U+0301", "U+201A"} |->
                   CASE c = "U+00E9" -> 233
                     [] c = "U+00CD" -> 205
                     [] c = "U+0301" -> 769
                     [] c = "U+201A" -> 8218]

IndexOf(s, c) == CHOOSE i \in DOMAIN s : s[i] = c

CodePoint(c) ==
    CASE c = "\n" -> 10
      [] c = "\t" -> 9
      [] c \in DOMAIN NonAsciiCode -> NonAsciiCode[c]
      [] OTHER -> 31 + IndexOf(AsciiTable, c)

CharOf(cp) ==
    CASE cp = 10 -> "\n"
      [] cp = 9 -> "\t"
      [] cp >= 32 /\ cp <= 126 -> AsciiTable[cp - 31]
      [] OTHER -> CHOOSE c \in DOMAIN NonAsciiCode : NonAsciiCode[c] = cp

\* UTF-8 encoding of one character (char::len_utf8, char::encode_utf8).
Utf8Len(c) ==
    IF c \notin DOMAIN NonAsciiCode THEN 1
    ELSE IF NonAsciiCode[c] < 2048 THEN 2
    ELSE IF NonAsciiCode[c] < 65536 THEN 3
    ELSE 4

Utf8Bytes(c) ==
    LET cp == CodePoint(c)
    IN  IF cp < 128 THEN <<cp>>
        ELSE IF cp < 2048 THEN <<192 + (cp \div 64), 128 + (cp % 64)>>
        ELSE <<224 + (cp \div 4096), 128 + ((cp \div 64) % 64), 128 + (cp % 64)>>

\* char::is_alphabetic, char::is_whitespace, char::to_lowercase
IsAlphabetic(c) == c \in AsciiLetters \/ c \in {"U+00E9", "U+00CD"}

IsWhitespace(c) == c \in {" ", "\n", "\t"}

ToLowerChar(c) ==
    IF c \in Range(UpperLetters) THEN LowerLetters[IndexOf(UpperLetters, c)]
    ELSE IF c = "U+00CD" THEN "U+00ED"
    ELSE c

----------------------------------------------------------------------------
(* Strings *)

\* str::len: the length in bytes.
ByteLen(s) ==
    Len(s) + Cardinality({i \in 1..Len(s) : Utf8Len(s[i]) >= 2})
           + Cardinality({i \in 1..Len(s) : Utf8Len(s[i]) >= 3})
           + Cardinality({i \in 1..Len(s) : Utf8Len(s[i]) >= 4})

\* str::chars().count()
CharCount(s) == Len(s)

MatchAt(s, pat, i) ==
    /\ i + Len(pat) - 1 <= Len(s)
    /\ \A k \in 1..Len(pat) : s[i + k - 1] = pat[k]

\* str::contains
Contains(s, pat) == \E i \in 1..(Len(s) - Len(pat) + 1) : MatchAt(s, pat, i)

\* str::find: index of the first match, 0 for None.
Find(s, pat) ==
    IF Contains(s, pat)
    THEN CHOOSE i \in 1..(Len(s) - Len(pat) + 1) :
            /\ MatchAt(s, pat, i)
            /\ \A j \in 1..(i - 1) : ~MatchAt(s, pat, j)
    ELSE 0

\* The elements of s at the indices of keep within lo..hi, in order.
RECURSIVE Gather(_, _, _, _)
Gather(s, keep, lo, hi) ==
    IF lo > hi THEN <<>>
    ELSE IF lo = hi THEN (IF lo \in keep THEN <<s[lo]>> ELSE <<>>)
    ELSE LET mid == (lo + hi) \div 2
         IN  Gather(s, keep, lo, mid) \o Gather(s, keep, mid + 1, hi)

\* Concatenation of the sequences parts[lo..hi].
RECURSIVE Flatten(_, _, _)
Flatten(parts, lo, hi) ==
    IF lo > hi THEN <<>>
    ELSE IF lo = hi THEN parts[lo]
    ELSE LET mid == (lo + hi) \div 2
         IN  Flatten(parts, lo, mid) \o Flatten(parts, mid + 1, hi)

Concat(parts) == Flatten(parts, 1, Len(parts))

\* n copies of w.
Repeat(w, n) == [i \in 1..(n * Len(w)) |-> w[((i - 1) % Len(w)) + 1]]

\* The increasing sequence of the members of the set S of integers in lo..hi.
RECURSIVE SortedIn(_, _, _)
SortedIn(S, lo, hi) ==
    IF lo > hi THEN <<>>
    ELSE IF lo = hi THEN (IF lo \in S THEN <<lo>> ELSE <<>>)
    ELSE LET mid == (lo + hi) \div 2
         IN  SortedIn(S, lo, mid) \o SortedIn(S, mid + 1, hi)

----------------------------------------------------------------------------
(* The civic lexicon, validator.rs:11-27 *)

CIVIC_WORDS ==
    { <<"t","h","e">>,
      <<"a","n","d">>,
      <<"o","r">>,
      <<"b","u","t">>,
      <<"i","n">>,
      <<"o","n">>,
      <<"a","t">>,
      <<"t","o">>,
      <<"f","o","r">>,
      <<"o","f">>,
      <<"w","i","t","h">>,
      <<"b","y">>,
      <<"c","o","u","n","c","i","l">>,
      <<"c","i","t","y">>,
      <<"m","e","e","t","i","n","g">>,
      <<"a","g","e","n","d","a">>,
      <<"i","t","e","m">>,
      <<"p","u","b","l","i","c">>,
      <<"c","o","m","m","e","n","t">>,
      <<"s","e","s","s","i","o","n">>,
      <<"b","o","a","r","d">>,
      <<"c","o","m","m","i","s","s","i","o","n">>,
      <<"a","p","p","o","i","n","t","m","e","n","t">>,
      <<"o","r","d","i","n","a","n","c","e">>,
      <<"r","e","s","o","l","u","t","i","o","n">>,
      <<"b","u","d","g","e","t">>,
      <<"p","l","a","n","n","i","n","g">>,
      <<"z","o","n","i","n","g">>,
      <<"d","e","v","e","l","o","p","m","e","n","t">>,
      <<"t","r","a","f","f","i","c">>,
      <<"s","a","f","e","t","y">>,
      <<"p","a","r","k">>,
      <<"l","i","b","r","a","r","y">>,
      <<"p","o","l","i","c","e">>,
      <<"f","i","r","e">>,
      <<"e","m","e","r","g","e","n","c","y">>,
      <<"i","n","f","r","a","s","t","r","u","c","t","u","r","e">>,
      <<"p","r","o","j","e","c","t">>,
      <<"c","o","n","t","r","a","c","t">>,
      <<"a","p","p","r","o","v","a","l">>,
      <<"r","e","v","i","e","w">>,
      <<"h","e","a","r","i","n","g">>,
      <<"v","o","t","e">>,
      <<"m","o","t","i","o","n">>,
      <<"a","p","p","r","o","v","e">>,
      <<"d","e","n","y">>,
      <<"d","i","s","c","u","s","s","i","o","n">>,
      <<"r","e","p","o","r","t">>,
      <<"p","r","e","s","e","n","t","a","t","i","o","n">>,
      <<"s","t","a","f","f">>,
      <<"d","e","p","a","r","t","m","e","n","t">>,
      <<"m","a","y","o","r">>,
      <<"m","e","m","b","e","r">>,
      <<"c","h","a","i","r">>,
      <<"c","h","a","i","r","m","a","n">>,
      <<"c","h","a","i","r","w","o","m","a","n">>,
      <<"m","i","n","u","t","e","s">>,
      <<"a","c","t","i","o","n">>,
      <<"a","d","o","p","t">> }

----------------------------------------------------------------------------
(* Program constants *)

\* downloader.rs:5-7
MAX_PDF_SIZE == 200 * 1024 * 1024

MAX_RETRIES == 3

\* downloader.rs:51
MAX_URL_LEN == 2000

\* extractor.rs:10
MAX_PAGES == 1000

\* extractor.rs:83
PREVIEW_LEN == 500

\* validator.rs:4-8; the two f32 ratios 0.3 and 0.4 are kept as tenths.
MIN_TEXT_LENGTH == 100

MIN_LETTER_RATIO_TENTHS == 3

MIN_WORDS == 20

MIN_RECOGNIZABLE_WORDS == 5

MAX_SINGLE_CHAR_RATIO_TENTHS == 4

\* validator.rs:93 and validator.rs:104
SAMPLE_SIZE == 100

MIN_SAMPLE == 50

\* PdfDownloader::new, downloader.rs:39-44
max_size == MAX_PDF_SIZE

max_retries == MAX_RETRIES

\* PdfExtractor::new, extractor.rs:23-27
max_pages == MAX_PAGES

----------------------------------------------------------------------------
(* Percent-decoding: urlencoding::decode as called at downloader.rs:126-132 *)

HexString == <<"0","1","2","3","4","5","6","7","8","9","a","b","c","d","e","f">>

HexVal(c) == IndexOf(HexString, ToLowerChar(c)) - 1

\* Indices of a '%' followed by two hex digits; any other '%' stays literal.
EscapeStarts(s) ==
    {i \in 1..(Len(s) - 2) :
        s[i] = "%" /\ s[i + 1] \in HexDigits /\ s[i + 2] \in HexDigits}

\* urlencoding::decode_binary: the decoded bytes.
DecodeBinary(s) ==
    LET es == EscapeStarts(s)
        parts == [i \in 1..Len(s) |->
                    IF i \in es THEN <<16 * HexVal(s[i + 1]) + HexVal(s[i + 2])>>
                    ELSE IF (i - 1) \in es \/ (i - 2) \in es THEN <<>>
                    ELSE Utf8Bytes(s[i])]
    IN  Concat(parts)

IsCont(b) == b >= 128 /\ b <= 191

\* Length of the UTF-8 sequence a byte starts, 0 when it starts none.
LeadWidth(b) ==
    IF b < 128 THEN 1
    ELSE IF b >= 194 /\ b <= 223 THEN 2
    ELSE IF b >= 224 /\ b <= 239 THEN 3
    ELSE IF b >= 240 /\ b <= 244 THEN 4
    ELSE 0

\* Second-byte ranges that exclude overlong forms and surrogates.
SecondByteOk(lead, b) ==
    CASE lead = 224 -> b >= 160 /\ b <= 191
      [] lead = 237 -> b >= 128 /\ b <= 159
      [] lead = 240 -> b >= 144 /\ b <= 191
      [] lead = 244 -> b >= 128 /\ b <= 143
      [] OTHER -> IsCont(b)

\* String::from_utf8 succeeds.
ValidUtf8(b) ==
    \A j \in 1..Len(b) :
        IF IsCont(b[j])
        THEN \E d \in 1..3 :
                /\ j - d >= 1
                /\ LeadWidth(b[j - d]) > d
                /\ \A e \in 1..(d - 1) : IsCont(b[j - e])
        ELSE /\ LeadWidth(b[j]) >= 1
             /\ j + LeadWidth(b[j]) - 1 <= Len(b)
             /\ \A k \in 1..(LeadWidth(b[j]) - 1) : IsCont(b[j + k])
             /\ LeadWidth(b[j]) >= 2 => SecondByteOk(b[j], b[j + 1])

\* The characters of a valid UTF-8 byte sequence.
FromUtf8(b) ==
    LET starts == {j \in 1..Len(b) : ~IsCont(b[j])}
        chars == [j \in 1..Len(b) |->
                    IF j \notin starts THEN "?"
                    ELSE LET w == LeadWidth(b[j])
                         IN  CharOf(CASE w = 1 -> b[j]
                                      [] w = 2 -> (b[j] - 192) * 64 + (b[j + 1] - 128)
                                      [] w = 3 -> (b[j] - 224) * 4096
                                                  + (b[j + 1] - 128) * 64 + (b[j + 2] - 128)
                                      [] OTHER -> 0)]
    IN  Gather(chars, starts, 1, Len(b))

\* urlencoding::decode(..).unwrap_or_default().to_string()
DecodeOrDefault(s) ==
    LET b == DecodeBinary(s)
    IN  IF ValidUtf8(b) THEN FromUtf8(b) ELSE <<>>

----------------------------------------------------------------------------
(* PdfDownloader::extract_google_docs_url, downloader.rs:119-138 *)

GVIEW == <<"d","o","c","s",".","g","o","o","g","l","e",".","c","o","m","/","g","v","i","e","w">>

URL_PARAM == <<"u","r","l","=">>

AMP == <<"&">>

SliceFrom(s, from) == SubSeq(s, from, Len(s))

IsViewerUrl(u) == Contains(u, GVIEW)

QueryValueKeepTail(query_part) == DecodeOrDefault(query_part)

\* downloader.rs:125-133
QueryValue(query_part) ==
    LET end == Find(query_part, AMP)
    IN  IF end # 0
        THEN DecodeOrDefault(SubSeq(query_part, 1, end - 1))
        ELSE DecodeOrDefault(query_part)

extract_google_docs_url(u) ==
    IF IsViewerUrl(u)
    THEN LET start == Find(u, URL_PARAM)
         IN  IF start # 0
             THEN QueryValue(SliceFrom(u, start + 4))
             ELSE u
    ELSE u

----------------------------------------------------------------------------
(* Values *)

\* Document of the PDF parser (poppler::Document): whether from_data accepts
\* the bytes, n_pages(), and what page(i) and Page::text() yield.  pages
\* maps the 0-based indices of the pages given one by one, other is every
\* remaining page.
NoPage == [has_page |-> FALSE, has_text |-> FALSE, text |-> <<>>]

NoTextPage == [has_page |-> TRUE, has_text |-> FALSE, text |-> <<>>]

TextPage(t) == [has_page |-> TRUE, has_text |-> TRUE, text |-> t]

NoPages == [i \in {} |-> NoPage]

CorruptDoc == [valid |-> FALSE, n_pages |-> 0, pages |-> NoPages, other |-> NoPage]

PdfDoc(n, listed, rest) == [valid |-> TRUE, n_pages |-> n, pages |-> listed, other |-> rest]

\* Document::page(i), for 0 <= i < n_pages
PageAt(doc, i) == IF i \in DOMAIN doc.pages THEN doc.pages[i] ELSE doc.other

\* A byte buffer: its length and the document its content encodes.
Bytes(n, d) == [len |-> n, doc |-> d]

EmptyBytes == Bytes(0, CorruptDoc)

\* DownloadError, downloader.rs:9-22
NoError == [kind |-> "none", cause |-> "", size |-> 0, url |-> <<>>]

Network(c) == [kind |-> "Network", cause |-> c, size |-> 0, url |-> <<>>]

TooLarge(n) == [kind |-> "TooLarge", cause |-> "", size |-> n, url |-> <<>>]

InvalidUrl(u) == [kind |-> "InvalidUrl", cause |-> "", size |-> 0, url |-> u]

RetriesExhausted == [kind |-> "RetriesExhausted", cause |-> "", size |-> 0, url |-> <<>>]

\* Result<Vec<u8>, DownloadError>
DownloadOk(b) == [ok |-> TRUE, bytes |-> b, err |-> NoError]

DownloadErr(e) == [ok |-> FALSE, bytes |-> EmptyBytes, err |-> e]

\* Option<DownloadError>
None == [some |-> FALSE, err |-> NoError]

Some(e) == [some |-> TRUE, err |-> e]

\* What the HTTP server and the network do on one GET: the stage the exchange
\* reaches, the declared Content-Length (NoLength when absent) and the body.
NoLength == -1

Response(st, cl, b) == [stage |-> st, content_length |-> cl, body |-> b]

----------------------------------------------------------------------------
(* PdfDownloader, downloader.rs:49-117 *)

UrlIsInvalidCountingChars(u) == Len(u) = 0 \/ CharCount(u) > MAX_URL_LEN

\* downloader.rs:51
UrlIsInvalid(u) == Len(u) = 0 \/ ByteLen(u) > MAX_URL_LEN

\* downloader.rs:96-117
download_once(resp) ==
    IF resp.stage = "send_err" THEN DownloadErr(Network("send"))
    ELSE IF resp.stage = "status_err" THEN DownloadErr(Network("status"))
    ELSE IF resp.content_length # NoLength /\ resp.content_length > max_size
         THEN DownloadErr(TooLarge(resp.content_length))
    ELSE IF resp.stage = "body_err" THEN DownloadErr(Network("body"))
    ELSE IF resp.body.len > max_size THEN DownloadErr(TooLarge(resp.body.len))
    ELSE DownloadOk(resp.body)

BackoffDelayDoubled(n) == 2 ^ n

\* downloader.rs:82
BackoffDelay(n) == 2 ^ (n - 1)

KeepFirstError(prev, e) == IF prev.some THEN prev ELSE Some(e)

\* downloader.rs:78
RecordError(prev, e) == Some(e)

\* downloader.rs:80
SleepsAfter(n) == n < max_retries

\* downloader.rs:90-93
AfterRetries(last) == IF last.some THEN DownloadErr(last.err) ELSE DownloadErr(RetriesExhausted)

\* Events of the trace: the GET of attempt n with what the server did and
\* what download_once made of it, and the sleep after attempt n.
AttemptEvent(n, u, resp, r) ==
    [ev |-> "attempt", n |-> n, url |-> u, secs |-> 0, resp |-> resp, res |-> r]

SleepEvent(n, s) ==
    [ev |-> "sleep", n |-> n, url |-> <<>>, secs |-> s,
     resp |-> Response("", NoLength, EmptyBytes), res |-> DownloadErr(NoError)]

\* Where a call goes once download has returned.
AfterDownload == IF entry = "download" THEN "done" ELSE "downloaded"

----------------------------------------------------------------------------
(* TextValidator::is_good_quality, validator.rs:51-138 *)

\* str::split_whitespace: first and last index of every word, in order.
WordStarts(t) ==
    SortedIn({i \in 1..Len(t) : ~IsWhitespace(t[i]) /\ (i = 1 \/ IsWhitespace(t[i - 1]))},
             1, Len(t))

WordEnds(t) ==
    SortedIn({i \in 1..Len(t) :
                ~IsWhitespace(t[i]) /\ (i = Len(t) \/ IsWhitespace(t[i + 1]))},
             1, Len(t))

\* words.iter().take(100): the sampled words themselves, validator.rs:93
SampleWords(t) ==
    LET starts == WordStarts(t)
        ends == WordEnds(t)
        n == IF Len(starts) < SAMPLE_SIZE THEN Len(starts) ELSE SAMPLE_SIZE
    IN  [k \in 1..n |-> SubSeq(t, starts[k], ends[k])]

\* word.trim_matches(|c| !c.is_alphabetic()).to_lowercase(), validator.rs:97-99
CleanWord(w) ==
    LET alpha == {i \in 1..Len(w) : IsAlphabetic(w[i])}
    IN  IF alpha = {} THEN <<>>
        ELSE LET first == CHOOSE i \in alpha : \A j \in alpha : i <= j
                 last == CHOOSE i \in alpha : \A j \in alpha : j <= i
             IN  [k \in 1..(last - first + 1) |-> ToLowerChar(w[first + k - 1])]

IsRecognizable(w) == CleanWord(w) \in CIVIC_WORDS

LetterCount(t) == Cardinality({i \in 1..Len(t) : IsAlphabetic(t[i])})

\* text.len(), validator.rs:53 and validator.rs:64
TotalChars(t) == ByteLen(t)

\* word.len(), validator.rs:116
WordLen(w) == ByteLen(w)

\* The f32 comparisons of validator.rs:71-72 and validator.rs:119-120 in exact
\* arithmetic: a/b < 0.3 iff 10a < 3b, a/b > 0.4 iff 10a > 4b.  The f32
\* quotient rounds to the constant only when a/b is the constant, for every
\* b below 2^21.
LetterRatioTooLow(letters, total) == 10 * letters < MIN_LETTER_RATIO_TENTHS * total

SingleCharRatioTooHigh(single, sampled) == 10 * single > MAX_SINGLE_CHAR_RATIO_TENTHS * sampled

is_good_quality(t) ==
    IF TotalChars(t) < MIN_TEXT_LENGTH THEN FALSE
    ELSE IF TotalChars(t) = 0 THEN FALSE
    ELSE IF LetterRatioTooLow(LetterCount(t), TotalChars(t)) THEN FALSE
    ELSE IF Len(WordStarts(t)) < MIN_WORDS THEN FALSE
    ELSE LET sample_words == SampleWords(t)
             recognizable == Cardinality({k \in 1..Len(sample_words) :
                                            IsRecognizable(sample_words[k])})
             single_chars == Cardinality({k \in 1..Len(sample_words) :
                                            WordLen(sample_words[k]) = 1})
         IN  IF Len(sample_words) >= MIN_SAMPLE /\ recognizable < MIN_RECOGNIZABLE_WORDS
             THEN FALSE
             ELSE IF Len(sample_words) >= MIN_SAMPLE
                     /\ SingleCharRatioTooHigh(single_chars, Len(sample_words))
             THEN FALSE
             ELSE TRUE

----------------------------------------------------------------------------
(* normalize_text, extractor.rs:123-139 *)

\* Canonical compositions with U+0301 (unicode_normalization's nfc) among the
\* characters of the model: e + U+0301 = U+00E9 and I + U+0301 = U+00CD; no
\* other character of NormalizeAlphabet composes with a following U+0301.
ComposeAcute == [c \in {"e", "I"} |-> IF c = "e" THEN "U+00E9" ELSE "U+00CD"]

\* text.nfc().collect(), extractor.rs:125
Nfc(t) ==
    LET absorbed == {j \in 2..Len(t) : t[j] = "U+0301" /\ t[j - 1] \in DOMAIN ComposeAcute}
        composed == [i \in 1..Len(t) |->
                        IF (i + 1) \in absorbed THEN ComposeAcute[t[i]] ELSE t[i]]
    IN  Gather(composed, (1..Len(t)) \ absorbed, 1, Len(t))

\* Regex \n{3,} replaced by two newlines, extractor.rs:128-131
CollapseNewlines(t) ==
    Gather(t, {i \in 1..Len(t) :
                 ~(i >= 3 /\ t[i] = "\n" /\ t[i - 1] = "\n" /\ t[i - 2] = "\n")},
           1, Len(t))

\* Regex " {2,}" replaced by one space, extractor.rs:129-132
CollapseSpaces(t) ==
    Gather(t, {i \in 1..Len(t) : ~(i >= 2 /\ t[i] = " " /\ t[i - 1] = " ")}, 1, Len(t))

\* extractor.rs:135-136
FixChars(t) ==
    [i \in 1..Len(t) |-> IF t[i] = "|" THEN "I" ELSE IF t[i] = "U+201A" THEN "," ELSE t[i]]

\* str::trim, extractor.rs:138
Trim(t) ==
    LET solid == {i \in 1..Len(t) : ~IsWhitespace(t[i])}
    IN  IF solid = {} THEN <<>>
        ELSE LET first == CHOOSE i \in 1..Len(t) : i \in solid /\ \A j \in 1..(i - 1) : j \notin solid
                 back == CHOOSE k \in 1..Len(t) :
                            /\ (Len(t) + 1 - k) \in solid
                            /\ \A j \in 1..(k - 1) : (Len(t) + 1 - j) \notin solid
             IN  SubSeq(t, first, Len(t) + 1 - back)

normalize_text(t) == Trim(FixChars(CollapseSpaces(CollapseNewlines(Nfc(t)))))

----------------------------------------------------------------------------
(* PdfExtractor, extractor.rs:32-103 *)

\* PdfExtractionResult, extractor.rs:111-120
ExtractionResult(t, pc_, pp) == [text |-> t, page_count |-> pc_, pages_processed |-> pp]

NoResult == ExtractionResult(<<>>, 0, 0)

\* PyResult<Option<PdfExtractionResult>>; Panic is the unwinding of a Rust
\* panic out of the call.
OkSome(r) == [status |-> "Ok", some |-> TRUE, value |-> r, msg |-> "", cause |-> NoError]

OkNone == [status |-> "Ok", some |-> FALSE, value |-> NoResult, msg |-> "", cause |-> NoError]

ExtractErr(m, e) == [status |-> "Err", some |-> FALSE, value |-> NoResult, msg |-> m, cause |-> e]

Panic(m) == [status |-> "Panic", some |-> FALSE, value |-> NoResult, msg |-> m, cause |-> NoError]

NotReturned == [status |-> "", some |-> FALSE, value |-> NoResult, msg |-> "", cause |-> NoError]

Min(a, b) == IF a < b THEN a ELSE b

\* format!("{}", n) for n >= 0
RECURSIVE Decimal(_)
Decimal(n) == IF n < 10 THEN <<AsciiTable[n + 17]>> ELSE Decimal(n \div 10) \o <<AsciiTable[(n % 10) + 17]>>

\* format!("--- PAGE {} ---\n{}", page_num + 1, text), extractor.rs:62
PageBlock(page_num, t) ==
    <<"-","-","-"," ","P","A","G","E"," ">> \o Decimal(page_num + 1)
        \o <<" ","-","-","-","\n">> \o t

TextPagesKeepingEmpty(doc, n) ==
    {i \in 0..(n - 1) : PageAt(doc, i).has_page /\ PageAt(doc, i).has_text}

\* Page indices whose text is pushed to all_text, extractor.rs:57-70
TextPages(doc, n) ==
    {i \in 0..(n - 1) :
        PageAt(doc, i).has_page /\ PageAt(doc, i).has_text /\ PageAt(doc, i).text # <<>>}

\* all_text after the page walk, extractor.rs:55-70
AllText(doc, n) ==
    LET order == SortedIn(TextPages(doc, n), 0, n - 1)
    IN  [k \in 1..Len(order) |-> PageBlock(order[k], PageAt(doc, order[k]).text)]

\* all_text.join("\n"), extractor.rs:77
JoinLines(parts) ==
    Concat([k \in 1..(2 * Len(parts) - 1) |->
              IF k % 2 = 1 THEN parts[(k + 1) \div 2] ELSE <<"\n">>])

\* str::is_char_boundary(n), for 0 < n < len
RECURSIVE LastCharWithin(_, _, _, _)
LastCharWithin(t, n, lo, hi) ==
    IF lo = hi THEN lo
    ELSE LET mid == (lo + hi + 1) \div 2
         IN  IF ByteLen(SubSeq(t, 1, mid)) <= n
             THEN LastCharWithin(t, n, mid, hi)
             ELSE LastCharWithin(t, n, lo, mid - 1)

IsCharBoundary(t, n) == ByteLen(SubSeq(t, 1, LastCharWithin(t, n, 0, Len(t)))) = n

\* &normalized[..500] panics unless byte 500 starts a character, extractor.rs:83-87
PreviewPanics(normalized) ==
    ByteLen(normalized) > PREVIEW_LEN /\ ~IsCharBoundary(normalized, PREVIEW_LEN)

PagesToProcessUncapped(page_count) == page_count

\* extractor.rs:52
PagesToProcess(page_count) == Min(page_count, max_pages)

\* combined_text, extractor.rs:77
CombinedText(doc) == JoinLines(AllText(doc, PagesToProcess(doc.n_pages)))

\* extractor.rs:44-103
extract_from_bytes(b) ==
    IF ~b.doc.valid THEN ExtractErr("PDF parsing failed", NoError)
    ELSE LET page_count == b.doc.n_pages
             pages_to_process == PagesToProcess(page_count)
             all_text == AllText(b.doc, pages_to_process)
         IN  IF Len(all_text) = 0 THEN OkNone
             ELSE LET normalized == normalize_text(CombinedText(b.doc))
                  IN  IF PreviewPanics(normalized)
                      THEN Panic("byte index 500 is not a char boundary")
                      ELSE IF ~is_good_quality(normalized) THEN OkNone
                      ELSE OkSome(ExtractionResult(normalized, page_count, pages_to_process))

\* extractor.rs:32-40
extract_from_url_return(d) ==
    IF d.ok THEN extract_from_bytes(d.bytes) ELSE ExtractErr("Download failed", d.err)

----------------------------------------------------------------------------
(* Inputs *)

\* n copies of the word w, separated by single spaces.
Words(w, n) == SubSeq(Repeat(w \o <<" ">>, n), 1, n * (Len(w) + 1) - 1)

\* n1 copies of w1 followed by n2 copies of w2.
Mix(w1, n1, w2, n2) ==
    IF n1 = 0 THEN Words(w2, n2)
    ELSE IF n2 = 0 THEN Words(w1, n1)
    ELSE Words(w1, n1) \o <<" ">> \o Words(w2, n2)

W_THE == <<"t","h","e">>

W_COUNCIL == <<"(","C","o","u","n","c","i","l",")",",">>

W_GIBBERISH == <<"x","y","z","a","b","c">>

W_LETTER == <<"x">>

W_DIGITS == <<"1","2","3","4","5","6","7">>

W_ACCENT == <<"U+00E9">>

W_ACCENTS == <<"U+00E9","U+00E9","U+00E9">>

W_CITE == <<"c","i","t","U+00E9">>

\* Page texts: acceptable text, text too short to be accepted, and text with
\* two-byte characters longer than the 500-byte preview.
PT_GOOD == Words(W_THE, 30)

PT_SHORT == Words(W_THE, 3)

PT_ACCENTED == Mix(W_THE, 9, W_CITE, 90)

PageTexts == {PT_GOOD, PT_SHORT, PT_ACCENTED}

\* Page indices that may hold text; the last two surround the page cap.
TextPositions == {0, 9, MAX_PAGES - 1, MAX_PAGES}

PageCounts == {0, 2, 10, MAX_PAGES, MAX_PAGES + 1}

\* At most MaxTextPages pages of a document hold text.
MaxTextPages == 2

OtherPages == {NoPage, NoTextPage, TextPage(<<>>)}

\* The ways to put text on at most MaxTextPages of the first n pages.
Listings(n) ==
    UNION {[P -> {TextPage(t) : t \in PageTexts}] :
             P \in {Q \in SUBSET (TextPositions \cap 0..(n - 1)) :
                       Cardinality(Q) <= MaxTextPages}}

Documents ==
    UNION {{PdfDoc(n, f, rest) : f \in Listings(n), rest \in OtherPages} : n \in PageCounts}

\* Sizes of byte buffers: a small one, and the cap with its two neighbours.
SMALL_LEN == 4 * 1024

GoodDoc == PdfDoc(1, [i \in {0} |-> TextPage(PT_GOOD)], NoPage)

BlankDoc == PdfDoc(2, NoPages, TextPage(<<>>))

ByteInputs ==
    {Bytes(SMALL_LEN, d) : d \in Documents \cup {CorruptDoc}}
        \cup {Bytes(n, d) : n \in {max_size, max_size + 1}, d \in {GoodDoc, BlankDoc, CorruptDoc}}

\* Bodies a server may send.
HttpBodies ==
    {Bytes(SMALL_LEN, GoodDoc), Bytes(SMALL_LEN, CorruptDoc), Bytes(max_size, BlankDoc),
     Bytes(max_size + 1, GoodDoc)}

\* The GET fails before a response, the status is not a success, the body
\* transfer breaks, or the body arrives; Content-Length is absent, understated,
\* exact or overstated.
Responses ==
    {Response("send_err", NoLength, EmptyBytes), Response("status_err", NoLength, EmptyBytes)}
        \cup {Response("body_err", cl, EmptyBytes) : cl \in {NoLength, max_size + 1}}
        \cup {Response("complete", cl, b) :
                 cl \in {NoLength, 0, max_size + 1}, b \in HttpBodies}
        \cup {Response("complete", b.len, b) : b \in HttpBodies}

\* URLs
HTTPS == <<"h","t","t","p","s",":","/","/">>

PLAIN_URL == HTTPS \o <<"e",".","c","o","m","/","a",".","p","d","f">>

ENCODED_TARGET == <<"h","t","t","p","s","%","3","A","%","2","F","%","2","F","e",".","c","o","m","%","2","F","a",".","p","d","f">>

VIEWER_URL == HTTPS \o GVIEW \o <<"?">> \o URL_PARAM \o ENCODED_TARGET

\* URLs of exactly n bytes: ASCII only, and with two-byte characters.
AsciiUrlOfLen(n) == HTTPS \o Repeat(<<"a">>, n - Len(HTTPS))

AccentedUrlOfBytes(n) ==
    HTTPS \o Repeat(<<"U+00E9">>, (n - Len(HTTPS)) \div 2)

DownloadUrls ==
    {<<>>, PLAIN_URL, VIEWER_URL,
     HTTPS \o GVIEW \o <<"?">> \o URL_PARAM,
     AsciiUrlOfLen(MAX_URL_LEN), AsciiUrlOfLen(MAX_URL_LEN + 1),
     AccentedUrlOfBytes(MAX_URL_LEN), AccentedUrlOfBytes(MAX_URL_LEN + 2)}

ExtractUrls == {<<>>, PLAIN_URL}

----------------------------------------------------------------------------
(* The pipeline: download, extract_from_url, extract_from_bytes *)

Idle ==
    /\ actual_url = <<>>
    /\ attempt = 0
    /\ last_error = None
    /\ trace = <<>>
    /\ downloaded = DownloadErr(NoError)
    /\ result = NotReturned
    /\ pc = "call"

Init ==
    /\ \/ entry = "download" /\ url \in DownloadUrls /\ pdf_bytes = EmptyBytes
       \/ entry = "extract_from_url" /\ url \in ExtractUrls /\ pdf_bytes = EmptyBytes
       \/ entry = "extract_from_bytes" /\ url = <<>> /\ pdf_bytes \in ByteInputs
    /\ text = <<>>
    /\ Idle

\* download up to the retry loop, downloader.rs:49-58
DownloadCall ==
    /\ pc = "call"
    /\ entry \in {"download", "extract_from_url"}
    /\ IF UrlIsInvalid(url)
       THEN /\ downloaded' = DownloadErr(InvalidUrl(url))
            /\ pc' = AfterDownload
            /\ UNCHANGED <<actual_url, attempt, last_error>>
       ELSE /\ actual_url' = extract_google_docs_url(url)
            /\ last_error' = None
            /\ attempt' = 1
            /\ pc' = "loop"
            /\ UNCHANGED downloaded
    /\ UNCHANGED <<entry, url, pdf_bytes, text, trace, result>>

\* One iteration of the retry loop, downloader.rs:61-87
DownloadAttempt ==
    /\ pc = "loop"
    /\ attempt <= max_retries
    /\ \E resp \in Responses :
          LET r == download_once(resp)
          IN  IF r.ok
              THEN /\ downloaded' = r
                   /\ trace' = Append(trace, AttemptEvent(attempt, actual_url, resp, r))
                   /\ pc' = AfterDownload
                   /\ UNCHANGED <<attempt, last_error>>
              ELSE /\ last_error' = RecordError(last_error, r.err)
                   /\ trace' = IF SleepsAfter(attempt)
                               THEN trace \o <<AttemptEvent(attempt, actual_url, resp, r),
                                               SleepEvent(attempt, BackoffDelay(attempt))>>
                               ELSE Append(trace, AttemptEvent(attempt, actual_url, resp, r))
                   /\ attempt' = attempt + 1
                   /\ UNCHANGED <<downloaded, pc>>
    /\ UNCHANGED <<entry, url, pdf_bytes, text, actual_url, result>>

\* After the loop, downloader.rs:89-93
DownloadExhausted ==
    /\ pc = "loop"
    /\ attempt > max_retries
    /\ downloaded' = AfterRetries(last_error)
    /\ pc' = AfterDownload
    /\ UNCHANGED <<entry, url, pdf_bytes, text, actual_url, attempt, last_error, trace, result>>

\* extract_from_url once download has returned, extractor.rs:34-39
ExtractFromUrlReturn ==
    /\ pc = "downloaded"
    /\ result' = extract_from_url_return(downloaded)
    /\ pc' = "done"
    /\ UNCHANGED <<entry, url, pdf_bytes, text, actual_url, attempt, last_error, trace, downloaded>>

\* extract_from_bytes called by the host, extractor.rs:44-103
ExtractFromBytes ==
    /\ pc = "call"
    /\ entry = "extract_from_bytes"
    /\ result' = extract_from_bytes(pdf_bytes)
    /\ pc' = "done"
    /\ UNCHANGED <<entry, url, pdf_bytes, text, actual_url, attempt, last_error, trace, downloaded>>

Next ==
    \/ DownloadCall
    \/ DownloadAttempt
    \/ DownloadExhausted
    \/ ExtractFromUrlReturn
    \/ ExtractFromBytes

Spec == Init /\ [][Next]_vars

----------------------------------------------------------------------------
(* URL resolution on its own *)

\* Targets a viewer URL may point to, before they are percent-encoded.
TARGET_QUERY == PLAIN_URL \o <<"?","x","=","1","&","y","=","2">>

TARGET_ACCENT == HTTPS \o <<"e",".","c","o","m","/","c","a","f","U+00E9",".","p","d","f">>

TARGET_PERCENT == HTTPS \o <<"e",".","c","o","m","/","1","0","0","%",".","p","d","f">>

TARGET_SPACE == HTTPS \o <<"e",".","c","o","m","/","a"," ","b",".","p","d","f">>

Targets == {PLAIN_URL, TARGET_QUERY, TARGET_ACCENT, TARGET_PERCENT, TARGET_SPACE}

UpperHex == <<"0","1","2","3","4","5","6","7","8","9","A","B","C","D","E","F">>

Unreserved ==
    AsciiLetters \cup {"0","1","2","3","4","5","6","7","8","9","-","_",".","~"}

\* Percent-encoding of a query value by whoever built the viewer URL: every
\* byte of a character outside the unreserved set becomes %XX.
PercentEncode(t) ==
    Concat([i \in 1..Len(t) |->
              IF t[i] \in Unreserved THEN <<t[i]>>
              ELSE LET b == Utf8Bytes(t[i])
                   IN  Concat([k \in 1..Len(b) |->
                                 <<"%", UpperHex[(b[k] \div 16) + 1], UpperHex[(b[k] % 16) + 1]>>])])

\* Viewer URLs up to the url parameter: the Google Docs viewer, with and
\* without an earlier parameter, and a viewer of another host.
GVIEW_PREFIX == HTTPS \o GVIEW \o <<"?">>

GVIEW_PREFIX_EMBEDDED == HTTPS \o GVIEW \o <<"?","e","m","b","e","d","d","e","d","=","t","r","u","e","&">>

OTHER_VIEWER_PREFIX == HTTPS \o <<"v","i","e","w",".","e",".","c","o","m","/","v","?">>

GoogleViewerPrefixes == {GVIEW_PREFIX, GVIEW_PREFIX_EMBEDDED}

ViewerPrefixes == GoogleViewerPrefixes \cup {OTHER_VIEWER_PREFIX}

\* Query parameters that may follow the target.
TrailingParams ==
    {<<>>, <<"&","e","m","b","e","d","d","e","d","=","t","r","u","e">>,
     <<"&","a","=","b","&","c","=","d">>}

ViewerUrl(prefix, target, trailing) == prefix \o URL_PARAM \o PercentEncode(target) \o trailing

ViewerUrls ==
    {ViewerUrl(p, t, s) : p \in ViewerPrefixes, t \in Targets, s \in TrailingParams}

\* URLs without a url parameter.
DirectUrls ==
    Targets \cup {GVIEW_PREFIX \o <<"e","m","b","e","d","d","e","d","=","t","r","u","e">>,
                  HTTPS \o GVIEW}

ResolveUrls == ViewerUrls \cup DirectUrls

InitResolve ==
    /\ entry = "extract_google_docs_url"
    /\ url \in ResolveUrls
    /\ pdf_bytes = EmptyBytes
    /\ text = <<>>
    /\ Idle

\* downloader.rs:56
ResolveUrl ==
    /\ pc = "call"
    /\ entry = "extract_google_docs_url"
    /\ actual_url' = extract_google_docs_url(url)
    /\ pc' = "done"
    /\ UNCHANGED <<entry, url, pdf_bytes, text, attempt, last_error, trace, downloaded, result>>

SpecResolve == InitResolve /\ [][ResolveUrl]_vars

----------------------------------------------------------------------------
(* The validator on its own *)

ValidatorWords ==
    {W_THE, W_COUNCIL, W_GIBBERISH, W_LETTER, W_DIGITS, W_ACCENT, W_ACCENTS, W_CITE}

FirstCounts == {0, 1, 4, 5, 19, 20, 24, 26, 40, 41, 49, 50}

SecondCounts == {0, 46, 59, 60}

ValidatorTexts ==
    {Mix(w1, n1, w2, n2) :
        w1 \in ValidatorWords, n1 \in FirstCounts,
        w2 \in {W_THE, W_GIBBERISH}, n2 \in SecondCounts}

InitValidator ==
    /\ entry = "validate_text"
    /\ url = <<>>
    /\ pdf_bytes = EmptyBytes
    /\ text \in ValidatorTexts
    /\ Idle

\* PdfExtractor::validate_text, extractor.rs:106-108
ValidateText ==
    /\ pc = "call"
    /\ entry = "validate_text"
    /\ result' = is_good_quality(text)
    /\ pc' = "done"
    /\ UNCHANGED <<entry, url, pdf_bytes, text, actual_url, attempt, last_error, trace, downloaded>>

SpecValidator == InitValidator /\ [][ValidateText]_vars

----------------------------------------------------------------------------
(* Normalization on its own, applied twice *)

NormalizeAlphabet == {"x", "e", "I", "|", "U+201A", " ", "\n", "U+0301"}

\* Texts of at most MaxTextLen characters.
MaxTextLen == 3

NormalizeTexts == UNION {[1..n -> NormalizeAlphabet] : n \in 0..MaxTextLen}

InitNormalize ==
    /\ entry = "normalize_text"
    /\ url = <<>>
    /\ pdf_bytes = EmptyBytes
    /\ text \in NormalizeTexts
    /\ Idle

\* normalize_text(text)
NormalizeCall ==
    /\ pc = "call"
    /\ entry = "normalize_text"
    /\ result' = normalize_text(text)
    /\ pc' = "normalized"
    /\ UNCHANGED <<entry, url, pdf_bytes, text, actual_url, attempt, last_error, trace, downloaded>>

\* normalize_text applied to the text it returned
NormalizeAgain ==
    /\ pc = "normalized"
    /\ text' = result
    /\ result' = normalize_text(result)
    /\ pc' = "renormalized"
    /\ UNCHANGED <<entry, url, pdf_bytes, actual_url, attempt, last_error, trace, downloaded>>

NextNormalize == NormalizeCall \/ NormalizeAgain

SpecNormalize == InitNormalize /\ [][NextNormalize]_vars

----------------------------------------------------------------------------
(* Claims about PdfDownloader::download *)

Returned == pc \in {"done", "downloaded"} /\ entry \in {"download", "extract_from_url"}

IsAttempt(i) == trace[i].ev = "attempt"

IsSleep(i) == trace[i].ev = "sleep"

FailedWith(i, kind) == IsAttempt(i) /\ ~trace[i].res.ok /\ trace[i].res.err.kind = kind

\* C1: once an attempt of download fails with TooLarge, no further HTTP
\* attempt and no backoff sleep is performed, and download returns that
\* TooLarge error.
C1_TooLargeNotRetried ==
    \A i \in 1..Len(trace) :
        FailedWith(i, "TooLarge") =>
            /\ i = Len(trace)
            /\ Returned => downloaded = trace[i].res

\* C2: the trace of download is attempt 1, sleep 1s, attempt 2, sleep 2s,
\* attempt 3: at most 3 attempts, each but the last one failed, the sleep
\* after failed attempt k is 2^(k-1) seconds, no sleep follows a success or
\* the third attempt, and the bytes returned are those the server sent on the
\* first successful attempt.
C2_SequentialBackoff ==
    LET n == Len(trace)
    IN  /\ n <= 2 * MAX_RETRIES - 1
        /\ \A i \in 1..n :
              IF i % 2 = 1
              THEN /\ IsAttempt(i)
                   /\ trace[i].n = (i + 1) \div 2
                   /\ trace[i].url = actual_url
                   /\ i < n => ~trace[i].res.ok
              ELSE /\ IsSleep(i)
                   /\ trace[i].n = i \div 2
                   /\ trace[i].secs = 2 ^ ((i \div 2) - 1)
                   /\ ~trace[i - 1].res.ok
        /\ (n > 0 /\ IsAttempt(n) /\ ~trace[n].res.ok) => trace[n].n = MAX_RETRIES
        /\ (n > 0 /\ IsSleep(n)) => pc = "loop" /\ attempt = trace[n].n + 1
        /\ (n > 0 /\ IsAttempt(n) /\ trace[n].res.ok) =>
              /\ Returned
              /\ downloaded.ok
              /\ downloaded.bytes = trace[n].resp.body
        /\ (Returned /\ downloaded.ok) => (n > 0 /\ IsAttempt(n) /\ trace[n].res.ok)

\* Attempts 1 and 2 failed on the network, attempt 3 succeeded, and its
\* bytes came back after sleeps of 1s and 2s.
C2_Witness ==
    /\ Returned
    /\ Len(trace) = 5
    /\ FailedWith(1, "Network")
    /\ trace[2].secs = 1
    /\ FailedWith(3, "Network")
    /\ trace[4].secs = 2
    /\ trace[5].res.ok
    /\ downloaded.ok
    /\ downloaded.bytes = trace[5].resp.body

\* C3: when every attempt fails, download returns the error of the last
\* attempt made, and RetriesExhausted is never returned.
C3_LastErrorReturned ==
    /\ (Returned /\ ~downloaded.ok /\ downloaded.err.kind # "InvalidUrl") =>
          /\ Len(trace) = 2 * MAX_RETRIES - 1
          /\ downloaded.err = trace[Len(trace)].res.err
    /\ downloaded.err.kind # "RetriesExhausted"
    /\ (pc = "loop" /\ attempt > max_retries) => last_error.some

\* All three attempts failed, the first and the last differently, and the
\* error of the last came back.
C3_Witness ==
    /\ Returned
    /\ Len(trace) = 5
    /\ FailedWith(1, "Network")
    /\ FailedWith(5, "TooLarge")
    /\ downloaded.err = trace[5].res.err
    /\ downloaded.err # trace[1].res.err

----------------------------------------------------------------------------
(* Claims about the size cap and the URL check *)

ExtractReturned == pc = "done" /\ entry \in {"extract_from_url", "extract_from_bytes"}

\* The buffer handed to extract_from_bytes.
ExtractedBytes == IF entry = "extract_from_bytes" THEN pdf_bytes ELSE downloaded.bytes

\* C4: download never returns Ok with more than max_size bytes, whatever
\* Content-Length the server declared, and extract_from_url and
\* extract_from_bytes never produce a result from a buffer over the cap.
C4_OverCapNeverYieldsData ==
    /\ downloaded.ok => downloaded.bytes.len <= MAX_PDF_SIZE
    /\ (ExtractReturned /\ entry = "extract_from_url" /\ result.status = "Ok") =>
          downloaded.ok /\ downloaded.bytes.len <= MAX_PDF_SIZE
    /\ (ExtractReturned /\ entry = "extract_from_bytes" /\ pdf_bytes.len > MAX_PDF_SIZE) =>
          ~(result.status = "Ok" /\ result.some)

\* C5 as stated: download returns InvalidUrl exactly when the URL is empty or
\* longer than 2000 characters, and then without any attempt or sleep.
C5_InvalidUrlIffOver2000Chars ==
    Returned =>
        /\ downloaded.err.kind = "InvalidUrl" <=> (Len(url) = 0 \/ CharCount(url) > 2000)
        /\ downloaded.err.kind = "InvalidUrl" => trace = <<>>

\* C5 amended: download returns InvalidUrl exactly when the URL is empty or
\* longer than 2000 bytes of UTF-8, it then carries the URL as supplied and
\* no attempt or sleep was made; no step after the check produces InvalidUrl.
C5_InvalidUrlIffOver2000Bytes ==
    /\ Returned =>
          /\ downloaded.err.kind = "InvalidUrl" <=> (Len(url) = 0 \/ ByteLen(url) > 2000)
          /\ downloaded.err.kind = "InvalidUrl" =>
                trace = <<>> /\ attempt = 0 /\ downloaded.err.url = url
    /\ \A i \in 1..Len(trace) : trace[i].res.err.kind # "InvalidUrl"
    /\ last_error.err.kind # "InvalidUrl"

\* download rejected a URL of 2001 bytes without an attempt or a sleep.
C5_Witness ==
    /\ Returned
    /\ ByteLen(url) = 2001
    /\ downloaded.err.kind = "InvalidUrl"
    /\ trace = <<>>

----------------------------------------------------------------------------
(* Claims about PdfExtractor *)

\* The normalized text of a parsed document has some text and passes the
\* validator.
HasText(doc) == Len(AllText(doc, PagesToProcess(doc.n_pages))) > 0

\* C6: extract_from_url returns an error exactly when the download fails or
\* the parser rejects the bytes; extract_from_bytes returns Ok(None) exactly
\* when the document parsed and either no walked page yielded non-empty text
\* or the normalized text fails is_good_quality, and Ok(Some(result)) in
\* every other case of a parsed document.
C6_OutcomeTaxonomy ==
    ExtractReturned =>
        /\ entry = "extract_from_url" =>
              (result.status = "Err" <=> (~downloaded.ok \/ ~downloaded.bytes.doc.valid))
        /\ (entry = "extract_from_bytes" \/ downloaded.ok) =>
              LET doc == ExtractedBytes.doc
              IN  IF ~doc.valid THEN result.status = "Err"
                  ELSE IF ~HasText(doc) \/ ~is_good_quality(normalize_text(CombinedText(doc)))
                  THEN result = OkNone
                  ELSE result.status = "Ok" /\ result.some

\* C10: every ExtractionResult has pages_processed = min(page_count,
\* MAX_PAGES), so pages_processed <= page_count and pages_processed <= 1000,
\* page_count being the parser's total; pages without text count as processed.
C10_PagesProcessed ==
    (ExtractReturned /\ result.status = "Ok" /\ result.some) =>
        LET r == result.value
        IN  /\ r.page_count = ExtractedBytes.doc.n_pages
            /\ r.pages_processed = Min(r.page_count, 1000)
            /\ r.pages_processed <= r.page_count
            /\ r.pages_processed <= 1000

\* A document of 1001 pages, text on one of them, came back with 1000 pages
\* processed.
C10_Witness ==
    /\ ExtractReturned
    /\ result.status = "Ok"
    /\ result.some
    /\ result.value.page_count = 1001
    /\ result.value.pages_processed = 1000
    /\ Cardinality(DOMAIN pdf_bytes.doc.pages) = 1

----------------------------------------------------------------------------
(* Claims about the page walk *)

\* The pages C11 lets contribute: index below min(page_count, 1000), a page
\* object, a text, and the text not empty.
Contributing(doc) ==
    {i \in 0..(Min(doc.n_pages, 1000) - 1) :
        LET page == PageAt(doc, i)
        IN  page.has_page /\ page.has_text /\ Len(page.text) > 0}

\* The k-th contributing page in increasing page order, k >= 1.
NthContributing(doc, k) ==
    CHOOSE i \in Contributing(doc) : Cardinality({j \in Contributing(doc) : j < i}) = k - 1

\* The marker with the 1-based page number, a newline, and the page's text.
MarkedPage(doc, i) ==
    <<"-","-","-"," ","P","A","G","E"," ">> \o Decimal(i + 1) \o <<" ","-","-","-">>
        \o <<"\n">> \o PageAt(doc, i).text

\* Where the k-th contribution starts in the combined text: after the
\* earlier contributions and one newline for each of them.
RECURSIVE StartOfNth(_, _)
StartOfNth(doc, k) ==
    IF k = 1 THEN 1
    ELSE StartOfNth(doc, k - 1) + Len(MarkedPage(doc, NthContributing(doc, k - 1))) + 1

\* C11: the combined text of extract_from_bytes, before normalization, is
\* made of exactly the pages with index in 0 .. min(page_count, MAX_PAGES)
\* that have a page object and a non-empty text, in increasing page order,
\* each prefixed by the marker --- PAGE <i+1> --- with its own 1-based number,
\* joined by single newlines; pages without a page object, without text or
\* with empty text are skipped without an error, and no page with index
\* >= MAX_PAGES contributes. The text returned is the normalization of that
\* combined text.
C11_PageWalk ==
    (ExtractReturned /\ (entry = "extract_from_bytes" \/ downloaded.ok)
        /\ ExtractedBytes.doc.valid) =>
        LET doc == ExtractedBytes.doc
            count == Cardinality(Contributing(doc))
            all_text == AllText(doc, PagesToProcess(doc.n_pages))
            combined == CombinedText(doc)
        IN  /\ Len(all_text) = count
            /\ \A k \in 1..count : all_text[k] = MarkedPage(doc, NthContributing(doc, k))
            /\ \A k \in 1..count :
                  LET from == StartOfNth(doc, k)
                      block == MarkedPage(doc, NthContributing(doc, k))
                  IN  /\ SubSeq(combined, from, from + Len(block) - 1) = block
                      /\ k > 1 => combined[from - 1] = "\n"
            /\ Len(combined) = IF count = 0 THEN 0 ELSE StartOfNth(doc, count + 1) - 2
            /\ \A i \in TextPages(doc, PagesToProcess(doc.n_pages)) : i < MAX_PAGES
            /\ result.status # "Err"
            /\ count = 0 => result = OkNone
            /\ (result.status = "Ok" /\ result.some) =>
                  result.value.text = normalize_text(combined)

\* A document of 1001 pages with text on pages 10 and 1001 only, every other
\* page having empty text, came back with the text of page 10 alone, marked
\* with the number 10.
C11_Witness ==
    /\ ExtractReturned
    /\ entry = "extract_from_bytes"
    /\ pdf_bytes.doc.n_pages = 1001
    /\ DOMAIN pdf_bytes.doc.pages = {9, 1000}
    /\ \A i \in {9, 1000} : pdf_bytes.doc.pages[i] = TextPage(PT_GOOD)
    /\ pdf_bytes.doc.other = TextPage(<<>>)
    /\ CombinedText(pdf_bytes.doc)
          = <<"-","-","-"," ","P","A","G","E"," ","1","0"," ","-","-","-","\n">> \o PT_GOOD
    /\ result.status = "Ok"
    /\ result.some
    /\ result.value.text = CombinedText(pdf_bytes.doc)

----------------------------------------------------------------------------
(* Claims about the validator, normalization and URL resolution *)

\* The verdict C7 describes, every length counted in characters.
QualityAsSpecified(t) ==
    LET sample == SampleWords(t)
        matches == Cardinality({k \in 1..Len(sample) : IsRecognizable(sample[k])})
        singles == Cardinality({k \in 1..Len(sample) : CharCount(sample[k]) = 1})
    IN  /\ CharCount(t) >= 100
        /\ 10 * LetterCount(t) >= 3 * CharCount(t)
        /\ Len(WordStarts(t)) >= 20
        /\ Len(sample) >= 50 => (matches >= 5 /\ 10 * singles <= 4 * Len(sample))

\* C7: is_good_quality(text) is true exactly when the text has at least 100
\* characters, alphabetic characters / total characters >= 0.30, at least 20
\* words and, when the sample of the first 100 words has at least 50 entries,
\* at least 5 sampled words in the lexicon and at most 0.40 of the sampled
\* words of length exactly 1.
C7_QualityAsSpecified ==
    (pc = "done" /\ entry = "validate_text") => (result <=> QualityAsSpecified(text))

\* C8: normalize_text(normalize_text(t)) = normalize_text(t) for every text t.
C8_NormalizeIdempotent ==
    (pc = "renormalized" /\ entry = "normalize_text") => result = text

\* A URL carries a url query parameter.
HasUrlParam(u) == Contains(u, <<"?">> \o URL_PARAM) \/ Contains(u, AMP \o URL_PARAM)

\* C9 as stated: every URL with a url= query parameter resolves to the
\* un-encoded target, without the parameters that follow it, and every URL
\* without one resolves to itself.
C9_ResolvesEveryViewerUrl ==
    (pc = "done" /\ entry = "extract_google_docs_url") =>
        /\ \A p \in ViewerPrefixes, t \in Targets, s \in TrailingParams :
              url = ViewerUrl(p, t, s) => actual_url = t
        /\ ~HasUrlParam(url) => actual_url = url

\* C9 amended: a URL that contains docs.google.com/gview and whose first
\* url= is followed by the percent-encoded target resolves to the un-encoded
\* target, without the parameters that follow it; a URL without
\* docs.google.com/gview or without url= resolves to itself.
C9_ResolvesGoogleViewerUrls ==
    (pc = "done" /\ entry = "extract_google_docs_url") =>
        /\ \A p \in GoogleViewerPrefixes, t \in Targets, s \in TrailingParams :
              url = ViewerUrl(p, t, s) => actual_url = t
        /\ (~Contains(url, GVIEW) \/ ~Contains(url, URL_PARAM)) => actual_url = url

\* A Google viewer URL with an earlier and a later parameter resolved to its
\* target, which holds a two-byte character.
C9_Witness ==
    /\ pc = "done"
    /\ entry = "extract_google_docs_url"
    /\ \E s \in TrailingParams \ {<<>>} : url = ViewerUrl(GVIEW_PREFIX_EMBEDDED, TARGET_ACCENT, s)
    /\ actual_url = TARGET_ACCENT

====
